---- MODULE Spec2Model ----
(***************************************************************************)
(* A model of the FSBI index (src/Server/fsbi.py) and of the HTTP handlers *)
(* that drive it (src/Server/app.py).                                      *)
(*                                                                         *)
(* Strings are sequences of one-character strings.  A BloomNode's bits are *)
(* the set of the positions that hold 1.  Python floats that the code      *)
(* compares or sorts are kept as exact fractions <<num, den>>.             *)
(*                                                                         *)
(* murmur_hash32 is SHA-256 in the source and numpy's Gaussian generator   *)
(* feeds the semantic hashes; neither can be evaluated here.  Both are     *)
(* replaced by fixed deterministic functions of the same arguments, used   *)
(* in the same places, with the same reductions modulo r and m.            *)
(***************************************************************************)
EXTENDS Integers, Sequences, FiniteSets, TLC

\* ---------------------------------------------------------------- bounds

\* bits per Bloom node (m_bits); the source runs with 2048
M_BITS == 8
\* longest text enumerated character by character
MaxLen == 1

\* ------------------------------------------------------ program constants

DEFAULT_K_LEX == 2
DEFAULT_K_SEM == 2
DEFAULT_R == 64
PROJECTOR_SEED == 42
MAX_PHRASE_LEN == 3
\* the width the digest is kept to (the source keeps 32 bits, which exceeds
\* the integers of the checker; every use reduces it modulo r or m)
HASH_RANGE == 65536

\* ---------------------------------------------------------------- strings

Alphabet == {"a", "A", " ", ":"}

IsSpace(c) == c = " "

\* str.lower() on one character
LowerChar(c) == IF c = "A" THEN "a" ELSE c

\* str.lower()
Lower(s) == [i \in 1..Len(s) |-> LowerChar(s[i])]

RECURSIVE LStrip(_)
LStrip(s) == IF s # <<>> /\ IsSpace(Head(s)) THEN LStrip(Tail(s)) ELSE s

RECURSIVE RStrip(_)
RStrip(s) ==
    IF s # <<>> /\ IsSpace(s[Len(s)]) THEN RStrip(SubSeq(s, 1, Len(s) - 1)) ELSE s

\* str.strip()
Strip(s) == RStrip(LStrip(s))

\* str.split(): the maximal runs of non-whitespace characters, in order
RECURSIVE SplitFrom(_, _, _)
SplitFrom(s, i, cur) ==
    IF i > Len(s)
    THEN IF cur = <<>> THEN <<>> ELSE <<cur>>
    ELSE IF IsSpace(s[i])
         THEN (IF cur = <<>> THEN <<>> ELSE <<cur>>) \o SplitFrom(s, i + 1, <<>>)
         ELSE SplitFrom(s, i + 1, Append(cur, s[i]))

Split(s) == SplitFrom(s, 1, <<>>)

\* " ".join(toks)
RECURSIVE Join(_)
Join(toks) ==
    IF toks = <<>> THEN <<>>
    ELSE IF Len(toks) = 1 THEN toks[1]
    ELSE toks[1] \o <<" ">> \o Join(Tail(toks))

Digit(d) == <<"0", "1", "2", "3", "4", "5", "6", "7", "8", "9">>[d + 1]

\* str(n) for an integer
RECURSIVE NatToStr(_)
NatToStr(n) == IF n < 10 THEN <<Digit(n)>> ELSE Append(NatToStr(n \div 10), Digit(n % 10))

IntToStr(n) == IF n < 0 THEN <<"-">> \o NatToStr(0 - n) ELSE NatToStr(n)

\* the code point of a character
Code(c) ==
    CASE c = "a" -> 97
      [] c = "A" -> 65
      [] c = " " -> 32
      [] c = ":" -> 58
      [] c = "|" -> 124
      [] c = "-" -> 45
      [] c = "/" -> 47
      [] c = "0" -> 48
      [] c = "1" -> 49
      [] c = "2" -> 50
      [] c = "3" -> 51
      [] c = "4" -> 52
      [] c = "5" -> 53
      [] c = "6" -> 54
      [] c = "7" -> 55
      [] c = "8" -> 56
      [] c = "9" -> 57
      [] OTHER -> 63

\* flattens a sequence of sequences
RECURSIVE Concat(_)
Concat(ss) == IF ss = <<>> THEN <<>> ELSE Head(ss) \o Concat(Tail(ss))

\* ---------------------------------------------------------------- hashing

\* the digest of a string, as an unsigned integer below HASH_RANGE
RECURSIVE Digest(_, _)
Digest(s, h) ==
    IF s = <<>> THEN h
    ELSE Digest(Tail(s), (h * 31421 + Code(Head(s)) * 6927 + 1) % HASH_RANGE)

\* murmur_hash32(s, seed): hashes str(seed) + s to 32 bits
murmur_hash32(s, seed) == Digest(IntToStr(seed) \o s, 40503)

\* ------------------------------------------------------ SemanticProjector

\* the n-grams of lengths 1, 2, 3 of a token, one per occurrence
NGrams(token) ==
    Concat([n \in 1..3 |->
        [i \in 1..(IF Len(token) - n + 1 > 0 THEN Len(token) - n + 1 ELSE 0) |->
            SubSeq(token, i, i + n - 1)]])

\* project(token) before normalisation: the count of every dimension
ProjectCounts(token) ==
    LET t == Lower(token)
        g == NGrams(t)
        dim(i) == murmur_hash32(g[i], PROJECTOR_SEED) % DEFAULT_R
    IN  [d \in {dim(i) : i \in 1..Len(g)} |->
            Cardinality({i \in 1..Len(g) : dim(i) = d})]

\* the j-th projection direction, rng.randn(r), at dimension d
ProjDirection(j, d) == (((j + 1) * 7919 + d * 104729 + (d * d) * 31) % 2001) - 1000

\* the projected score of a token along direction j: the dot product of the
\* direction with the count vector, and the squared norm that normalises it
ProjScore(token, j) ==
    LET cnt == ProjectCounts(token)
        RECURSIVE Dot(_)
        Dot(D) == IF D = {} THEN 0
                  ELSE LET d == CHOOSE x \in D : TRUE
                       IN  ProjDirection(j, d) * cnt[d] + Dot(D \ {d})
        RECURSIVE Norm2(_)
        Norm2(D) == IF D = {} THEN 0
                    ELSE LET d == CHOOSE x \in D : TRUE
                         IN  cnt[d] * cnt[d] + Norm2(D \ {d})
    IN  <<Dot(DOMAIN cnt), Norm2(DOMAIN cnt)>>

\* semantic_hashes(token, k, m)
semantic_hashes(token, k, m) ==
    [jj \in 1..k |->
        LET j == jj - 1
            score == ProjScore(token, j)
            combined == token \o <<"|">> \o IntToStr(j) \o <<"|">>
                        \o IntToStr(score[1]) \o <<"/">> \o IntToStr(score[2])
        IN  murmur_hash32(combined, j) % m]

\* ------------------------------------------------------------- BloomNode

\* BloomNode(m_bits, level, name): all bits zero, no children
BloomNode(level, name) ==
    [bits |-> {}, level |-> level, name |-> name, children |-> <<>>]

\* insert_indexes: sets bit i % m for every i of idxs
insert_indexes(bits, idxs) == bits \cup {idxs[i] % M_BITS : i \in 1..Len(idxs)}

\* match_score counting the distinct bit positions hit instead of the indices
match_score_distinct(bits, idxs) ==
    IF Len(idxs) > 0
    THEN <<Cardinality({idxs[i] % M_BITS : i \in 1..Len(idxs)} \cap bits), Len(idxs)>>
    ELSE <<0, 1>>

\* match_score as the fraction <<hits, len(idxs)>>; <<0, 1>> for no indices
match_score(bits, idxs) ==
    IF Len(idxs) > 0
    THEN <<Cardinality({i \in 1..Len(idxs) : (idxs[i] % M_BITS) \in bits}), Len(idxs)>>
    ELSE <<0, 1>>

\* bitarray.to01()
to01(bits) == [i \in 1..M_BITS |-> IF (i - 1) \in bits THEN "1" ELSE "0"]

\* ------------------------------------------------------------- FSBIIndex

Levels == 1..(3 + MAX_PHRASE_LEN - 1)

\* fractal_decompose(text): level -> list of subsequences
fractal_decompose(text0) ==
    LET text == Lower(Strip(text0))
        tokens == Split(text)
        bigrams(t) == [i \in 1..(Len(t) - 1) |-> SubSeq(t, i, i + 1)]
        phrases(L) ==
            [i \in 1..(IF Len(tokens) - L + 1 > 0 THEN Len(tokens) - L + 1 ELSE 0) |->
                Join(SubSeq(tokens, i, i + L - 1))]
    IN  [lvl \in Levels |->
            IF lvl = 1 THEN [i \in 1..Len(SelectSeq(text, LAMBDA c : ~IsSpace(c))) |->
                                <<SelectSeq(text, LAMBDA c : ~IsSpace(c))[i]>>]
            ELSE IF lvl = 2 THEN Concat([k \in 1..Len(tokens) |-> bigrams(tokens[k])])
            ELSE IF lvl = 3 THEN tokens
            ELSE phrases(lvl - 3 + 1)]

\* _lex_hashes(s, k)
lex_hashes(s, k) == [jj \in 1..k |-> murmur_hash32(s, jj - 1) % M_BITS]

\* _sem_hashes(s, k)
sem_hashes(s, k) == semantic_hashes(s, k, M_BITS)


\* a child key that leaves the level out
child_name_nolevel(lvl, subseq) == subseq

\* f"l{lvl}:{subseq}"
child_name(lvl, subseq) == <<"l">> \o IntToStr(lvl) \o <<":">> \o subseq

\* ---------------------------------------------------------------- inputs

DocIds == {"d1", "d2"}

RECURSIVE SeqsUpTo(_)
SeqsUpTo(n) ==
    IF n = 0 THEN {<<>>}
    ELSE LET shorter == SeqsUpTo(n - 1)
         IN  shorter \cup {Append(s, c) : s \in {t \in shorter : Len(t) = n - 1}, c \in Alphabet}

\* texts with a bigram, with padding to strip, and with phrases of two and of
\* three tokens
PhraseTexts ==
    {<<"a", ":">>, <<" ", "A", " ">>, <<"a", " ", ":">>, <<"a", " ", ":", " ", "a">>}

Texts == SeqsUpTo(MaxLen) \cup PhraseTexts

\* metadata is opaque to the index; the handlers pass other values
Metas == {"None"}

\* top_k: nothing, fewer than the documents, all of them
TopKs == {0, 1, 10}

ThresholdChoices ==
    {[given |-> FALSE, map |-> <<>>],
     [given |-> TRUE, map |-> (1 :> <<1, 2>>)],
     [given |-> TRUE, map |-> (0 :> <<0, 1>>)],
     [given |-> TRUE, map |-> (0 :> <<1, 2>>)],
     [given |-> TRUE, map |-> (0 :> <<1, 1>>)]}

\* ---------------------------------------------- decomposition and indices

\* the (level, subsequence) pairs of a decomposition in iteration order
Pairs(decomp) ==
    Concat([lvl \in Levels |-> [i \in 1..Len(decomp[lvl]) |-> <<lvl, decomp[lvl][i]>>]])

\* the pairs of every text, computed once
PairsTable == [t \in Texts |-> Pairs(fractal_decompose(t))] @@ <<>>

\* every subsequence some text decomposes into
Subseqs == UNION {{PairsTable[t][i][2] : i \in 1..Len(PairsTable[t])} : t \in Texts}

\* lex_idxs + sem_idxs of every subsequence, computed once
IdxTable ==
    [s \in Subseqs |-> lex_hashes(s, DEFAULT_K_LEX) \o sem_hashes(s, DEFAULT_K_SEM)] @@ <<>>

\* lex_idxs + sem_idxs of one subsequence
Idxs(s) == IdxTable[s]

\* the loop body with the child sharing the root's bit array
InsertSubseq_shared(root, lvl, subseq) ==
    LET idxs == Idxs(subseq)
        name == child_name(lvl, subseq)
        kids == IF name \in DOMAIN root.children
                THEN root.children
                ELSE (name :> BloomNode(lvl, name)) @@ root.children
    IN  [root EXCEPT
            !.bits = insert_indexes(root.bits, idxs),
            !.children = [kids EXCEPT ![name].bits = insert_indexes(root.bits, idxs)]]

\* root.insert_indexes(lex_idxs + sem_idxs)
InsertRoot(root, subseq) ==
    [root EXCEPT !.bits = insert_indexes(root.bits, Idxs(subseq))]

\* the child named after (lvl, subseq), created when missing, takes the indices
InsertChild(root, lvl, subseq) ==
    LET name == child_name(lvl, subseq)
        kids == IF name \in DOMAIN root.children
                THEN root.children
                ELSE (name :> BloomNode(lvl, name)) @@ root.children
    IN  [root EXCEPT !.children =
            [kids EXCEPT ![name].bits = insert_indexes(kids[name].bits, Idxs(subseq))]]

\* one iteration of index_document's loop: the subsequence's indices go into
\* the root and into the child
InsertSubseq(root, lvl, subseq) == InsertChild(InsertRoot(root, subseq), lvl, subseq)

\* index_document's loop over the pairs from position i on
RECURSIVE InsertFrom(_, _, _)
InsertFrom(root, pairs, i) ==
    IF i > Len(pairs) THEN root
    ELSE InsertFrom(InsertSubseq(root, pairs[i][1], pairs[i][2]), pairs, i + 1)

\* the root node index_document builds for (doc_id, text)
BuildTree(doc_id, text) ==
    InsertFrom(BloomNode(0, <<doc_id, "_root">>), PairsTable[text], 1)

\* metadata or {}
MetaOrEmpty(metadata) == IF metadata \in {"None", "{}"} THEN "{}" ELSE metadata

\* ------------------------------------------------------------- fractions

RECURSIVE Gcd(_, _)
Gcd(a, b) == IF b = 0 THEN a ELSE Gcd(b, a % b)

\* a fraction in lowest terms, the denominator positive
Frac(n, d) == LET g == Gcd(IF n < 0 THEN 0 - n ELSE n, d)
              IN  IF n = 0 THEN <<0, 1>> ELSE <<n \div g, d \div g>>

FracAdd(x, y) == Frac(x[1] * y[2] + y[1] * x[2], x[2] * y[2])
FracMul(x, y) == Frac(x[1] * y[1], x[2] * y[2])
\* x / y; a zero divisor is Python's ZeroDivisionError, kept as <<0, 0>>
FracDiv(x, y) == IF y[1] = 0 THEN <<0, 0>> ELSE Frac(x[1] * y[2], x[2] * y[1])
FracLess(x, y) == x[1] * y[2] < y[1] * x[2]

\* ----------------------------------------------------------------- query

\* "thresholds.get(0) or 0.01": a threshold of 0 falls back to the default
RootThreshold_falsy(thresholds) ==
    IF thresholds.given /\ 0 \in DOMAIN thresholds.map /\ thresholds.map[0][1] # 0
    THEN thresholds.map[0]
    ELSE <<1, 100>>

\* thresholds.get(0, 0.01) after "thresholds or {}"
RootThreshold(thresholds) ==
    IF thresholds.given /\ 0 \in DOMAIN thresholds.map
    THEN thresholds.map[0]
    ELSE <<1, 100>>

\* root_hits and root_total over the query's pairs
RECURSIVE RootCount(_, _, _)
RootCount(root, pairs, i) ==
    IF i > Len(pairs) THEN <<0, 0>>
    ELSE LET ids == Idxs(pairs[i][2])
             hits == Cardinality({n \in 1..Len(ids) : (ids[n] % M_BITS) \in root.bits})
             rest == RootCount(root, pairs, i + 1)
         IN  <<hits + rest[1], Len(ids) + rest[2]>>

\* root_score of one document
RootScore(root, pairs) ==
    LET c == RootCount(root, pairs, 1)
    IN  IF c[2] > 0 THEN Frac(c[1], c[2]) ELSE <<0, 1>>

\* the refinement loop: <<score, total_w>> over the query's pairs
RECURSIVE Refine(_, _, _)
Refine(root, pairs, i) ==
    IF i > Len(pairs) THEN << <<0, 1>>, <<0, 1>> >>
    ELSE LET lvl == pairs[i][1]
             s == pairs[i][2]
             name == child_name(lvl, s)
             idxs == Idxs(s)
             ms == IF name \in DOMAIN root.children
                   THEN match_score(root.children[name].bits, idxs)
                   ELSE match_score(root.bits, idxs)
             w == <<1, 1 + lvl>>
             rest == Refine(root, pairs, i + 1)
         IN  <<FracAdd(FracMul(w, Frac(ms[1], ms[2])), rest[1]), FracAdd(w, rest[2])>>

\* final_score without the total_w > 0 guard
FinalScore_unguarded(root, pairs) ==
    LET r == Refine(root, pairs, 1)
    IN  FracDiv(r[1], r[2])

\* final_score of one document
FinalScore(root, pairs) ==
    LET r == Refine(root, pairs, 1)
    IN  IF r[2][1] > 0 THEN FracDiv(r[1], r[2]) ELSE <<0, 1>>

\* the candidates list, in the iteration order of the trees dict
RECURSIVE Candidates(_, _, _, _, _)
Candidates(trs, keys, pairs, thr, i) ==
    IF i > Len(keys) THEN <<>>
    ELSE LET root == trs[keys[i]]
             rest == Candidates(trs, keys, pairs, thr, i + 1)
         IN  IF FracLess(RootScore(root, pairs), thr)
             THEN rest
             ELSE << <<keys[i], FinalScore(root, pairs)>> >> \o rest

\* a sort that puts an element before the earlier ones of equal score
RECURSIVE SortDesc_unstable(_)
SortDesc_unstable(c) ==
    IF c = <<>> THEN <<>>
    ELSE LET sorted == SortDesc_unstable(SubSeq(c, 1, Len(c) - 1))
             x == c[Len(c)]
             before == SelectSeq(sorted, LAMBDA y : FracLess(x[2], y[2]))
             after == SelectSeq(sorted, LAMBDA y : ~FracLess(x[2], y[2]))
         IN  before \o <<x>> \o after

\* list.sort(key=score, reverse=True): stable, equal scores keep their order
RECURSIVE SortDesc(_)
SortDesc(c) ==
    IF c = <<>> THEN <<>>
    ELSE LET sorted == SortDesc(SubSeq(c, 1, Len(c) - 1))
             x == c[Len(c)]
             before == SelectSeq(sorted, LAMBDA y : ~FracLess(y[2], x[2]))
             after == SelectSeq(sorted, LAMBDA y : FracLess(y[2], x[2]))
         IN  before \o <<x>> \o after

\* candidates[:top_k] for top_k >= 0
Take(c, top_k) == SubSeq(c, 1, IF top_k < Len(c) THEN top_k ELSE Len(c))

\* query(query_text, top_k, thresholds)
query(trs, keys, query_text, top_k, thresholds) ==
    Take(SortDesc(Candidates(trs, keys, PairsTable[query_text],
                             RootThreshold(thresholds), 1)), top_k)

\* get_doc(doc_id): self.docs.get(doc_id, {})
get_doc(ds, doc_id) == IF doc_id \in DOMAIN ds THEN ds[doc_id] ELSE "{}"

\* export_index_snapshot()
export_index_snapshot(ds, trs) ==
    [d \in DOMAIN trs |->
        [root_bits |-> to01(trs[d].bits),
         children |-> [k \in DOMAIN trs[d].children |-> to01(trs[d].children[k].bits)],
         meta |-> ds[d].meta]]

\* ----------------------------------------------------------------- state

VARIABLES
    docs,        \* self.docs: doc_id -> [text, meta]
    trees,       \* self.trees: doc_id -> root BloomNode
    trees_keys,  \* the iteration order of the keys of self.trees
    first_order, \* history: the doc_ids in the order of their first indexing
    last,        \* the call in progress: its name, its arguments, what it returns
    \* the same index as two threads see it, one inside index_document and one
    \* inside query: BloomNodes are objects on a heap, the dicts hold references
    heap,        \* reference -> [node, text], text being what the node is built from
    c_docs,      \* self.docs
    c_trees,     \* self.trees: doc_id -> reference
    c_keys,      \* the iteration order of the keys of self.trees
    writer,      \* the thread inside index_document: where it is, its locals
    reader       \* the thread inside query: where it is, its locals

svars == <<docs, trees, trees_keys, first_order, last>>
cvars == <<heap, c_docs, c_trees, c_keys, writer, reader>>
vars ==
    <<docs, trees, trees_keys, first_order, last,
      heap, c_docs, c_trees, c_keys, writer, reader>>

InitSeq ==
    /\ docs = <<>>
    /\ trees = <<>>
    /\ trees_keys = <<>>
    /\ first_order = <<>>
    /\ last = [op |-> "idle"]

InitConc ==
    /\ heap = <<>>
    /\ c_docs = <<>>
    /\ c_trees = <<>>
    /\ c_keys = <<>>
    /\ writer = [pc |-> "idle"]
    /\ reader = [pc |-> "idle"]

Init == InitSeq /\ InitConc

SeqRange(q) == {q[i] : i \in 1..Len(q)}

\* d[key] = value on a dict
DictSet(d, key, value) == (key :> value) @@ d

\* the key order of a dict after d[key] = value: a new key goes last, an old
\* key keeps its place
KeysAfterSet(keys, key) == IF key \in SeqRange(keys) THEN keys ELSE Append(keys, key)

\* index_document inserting into the root the doc_id already has
index_document_merge(doc_id, text, metadata) ==
    LET start == IF doc_id \in DOMAIN trees
                 THEN trees[doc_id] ELSE BloomNode(0, <<doc_id, "_root">>)
        root == InsertFrom(start, PairsTable[text], 1)
    IN  /\ docs' = DictSet(docs, doc_id, [text |-> text, meta |-> MetaOrEmpty(metadata)])
        /\ trees' = DictSet(trees, doc_id, root)
        /\ trees_keys' = KeysAfterSet(trees_keys, doc_id)

\* FSBIIndex.index_document(doc_id, text, metadata)
index_document(doc_id, text, metadata) ==
    LET root == BuildTree(doc_id, text)
    IN  /\ docs' = DictSet(docs, doc_id, [text |-> text, meta |-> MetaOrEmpty(metadata)])
        /\ trees' = DictSet(trees, doc_id, root)
        /\ trees_keys' = KeysAfterSet(trees_keys, doc_id)

\* what the index held for doc_id before a call replaced it
Prior(doc_id) ==
    IF doc_id \in DOMAIN trees
    THEN [present |-> TRUE, text |-> docs[doc_id].text, bits |-> trees[doc_id].bits]
    ELSE [present |-> FALSE, text |-> <<>>, bits |-> {}]

IndexDocument ==
    /\ last.op = "idle"
    /\ \E doc_id \in DocIds, text \in Texts, metadata \in Metas :
        /\ index_document(doc_id, text, metadata)
        /\ first_order' = IF doc_id \in SeqRange(first_order)
                          THEN first_order ELSE Append(first_order, doc_id)
        /\ last' = [op |-> "index_document", doc_id |-> doc_id, text |-> text,
                    metadata |-> metadata, prior |-> Prior(doc_id)]
        /\ UNCHANGED cvars

\* a query that creates the children it looks up, as
\* root.children.setdefault(child_name, BloomNode(...)) would
Query_setdefault ==
    /\ last.op = "idle"
    /\ \E query_text \in Texts, top_k \in TopKs, thresholds \in ThresholdChoices :
        /\ last' = [op |-> "query", query_text |-> query_text, top_k |-> top_k,
                    thresholds |-> thresholds,
                    ret |-> query(trees, trees_keys, query_text, top_k, thresholds)]
        /\ trees' = [d \in DOMAIN trees |->
                LET new == {pr \in SeqRange(PairsTable[query_text]) :
                                child_name(pr[1], pr[2]) \notin DOMAIN trees[d].children}
                IN  [trees[d] EXCEPT !.children =
                        [k \in {child_name(pr[1], pr[2]) : pr \in new} |->
                            BloomNode(0, k)] @@ trees[d].children]]
        /\ UNCHANGED <<docs, trees_keys, first_order>>
        /\ UNCHANGED cvars

Query ==
    /\ last.op = "idle"
    /\ \E query_text \in Texts, top_k \in TopKs, thresholds \in ThresholdChoices :
        /\ last' = [op |-> "query", query_text |-> query_text, top_k |-> top_k,
                    thresholds |-> thresholds,
                    ret |-> query(trees, trees_keys, query_text, top_k, thresholds)]
        /\ UNCHANGED <<docs, trees, trees_keys, first_order>>
        /\ UNCHANGED cvars

GetDoc ==
    /\ last.op = "idle"
    /\ \E doc_id \in DocIds :
        /\ last' = [op |-> "get_doc", doc_id |-> doc_id, ret |-> get_doc(docs, doc_id)]
        /\ UNCHANGED <<docs, trees, trees_keys, first_order>>
        /\ UNCHANGED cvars

ExportIndexSnapshot ==
    /\ last.op = "idle"
    /\ last' = [op |-> "export_index_snapshot", ret |-> export_index_snapshot(docs, trees)]
    /\ UNCHANGED <<docs, trees, trees_keys, first_order>>
    /\ UNCHANGED cvars

\* the caller takes the result; the next call can begin
Return ==
    /\ last.op # "idle"
    /\ last' = [op |-> "idle"]
    /\ UNCHANGED <<docs, trees, trees_keys, first_order>>
    /\ UNCHANGED cvars

Next == IndexDocument \/ Query \/ GetDoc \/ ExportIndexSnapshot \/ Return

Spec == Init /\ [][Next]_vars

\* ------------------------------------------------------- app.py handlers

\* Python's None
None == "None"

\* a field of a JSON payload: absent, null, or a value
Absent == [present |-> FALSE, null |-> FALSE, val |-> <<>>]
JsonNull == [present |-> TRUE, null |-> TRUE, val |-> <<>>]
Given(v) == [present |-> TRUE, null |-> FALSE, val |-> v]

AppDocIds == {"d1"}
AppTexts == {<<>>, <<"a", ":">>, <<"a", " ", ":">>}

IndexPayloads ==
    [doc_id : {Absent, JsonNull} \cup {Given(d) : d \in AppDocIds},
     text : {Absent, JsonNull} \cup {Given(t) : t \in AppTexts},
     meta : {Absent, Given("meta1")}]

QueryPayloads ==
    [q : {Absent} \cup {Given(t) : t \in AppTexts},
     top_k : {Absent, Given(0), Given(1)}]

DEFAULT_TOP_K == 10
SNIPPET_LEN == 200

\* health(): {"status": "ok", "docs": len(INDEX.docs)}
Health ==
    /\ last.op = "idle"
    /\ last' = [op |-> "GET /health", status |-> "ok", docs |-> Cardinality(DOMAIN docs)]
    /\ UNCHANGED <<docs, trees, trees_keys, first_order>>
    /\ UNCHANGED cvars

\* index_doc(): payload["doc_id"] and payload["text"] raise KeyError when the
\* key is absent; a null passes as None.  index_document then raises
\* AttributeError on None.strip() before it stores anything, and stores the
\* document under whatever doc_id it was given.
IndexDoc ==
    /\ last.op = "idle"
    /\ \E payload \in IndexPayloads :
        IF ~payload.doc_id.present \/ ~payload.text.present
        THEN /\ last' = [op |-> "POST /index", payload |-> payload, status |-> "KeyError"]
             /\ UNCHANGED <<docs, trees, trees_keys, first_order>>
             /\ UNCHANGED cvars
        ELSE IF payload.text.null
        THEN /\ last' = [op |-> "POST /index", payload |-> payload,
                         status |-> "AttributeError"]
             /\ UNCHANGED <<docs, trees, trees_keys, first_order>>
             /\ UNCHANGED cvars
        ELSE LET doc_id == IF payload.doc_id.null THEN None ELSE payload.doc_id.val
                 meta == IF payload.meta.present THEN payload.meta.val ELSE "{}"
             IN  /\ index_document(doc_id, payload.text.val, meta)
                 /\ first_order' = IF doc_id \in SeqRange(first_order)
                                   THEN first_order ELSE Append(first_order, doc_id)
                 /\ last' = [op |-> "POST /index", payload |-> payload,
                             status |-> "indexed"]
                 /\ UNCHANGED cvars

\* doc.get("text", "")[:200] for the document of one result
Snippet(ds, doc_id) ==
    LET doc == get_doc(ds, doc_id)
    IN  SubSeq(doc.text, 1, IF Len(doc.text) < SNIPPET_LEN THEN Len(doc.text) ELSE SNIPPET_LEN)

\* the results of a query, each with its snippet
ExpandResults(ds, results) ==
    [i \in 1..Len(results) |->
        [doc_id |-> results[i][1], score |-> results[i][2],
         snippet |-> Snippet(ds, results[i][1])]]

\* query(): INDEX.query(q, top_k) without thresholds, each result with the
\* first 200 characters of the stored text
QueryHandler ==
    /\ last.op = "idle"
    /\ \E payload \in QueryPayloads :
        LET q == IF payload.q.present THEN payload.q.val ELSE <<>>
            top_k == IF payload.top_k.present THEN payload.top_k.val ELSE DEFAULT_TOP_K
        IN  /\ last' = [op |-> "POST /query", payload |-> payload,
                        results |-> ExpandResults(docs,
                            query(trees, trees_keys, q, top_k,
                                  [given |-> FALSE, map |-> <<>>]))]
            /\ UNCHANGED <<docs, trees, trees_keys, first_order>>
            /\ UNCHANGED cvars

\* snapshot(): {"snapshot": INDEX.export_index_snapshot()}
Snapshot ==
    /\ last.op = "idle"
    /\ last' = [op |-> "GET /snapshot", snapshot |-> export_index_snapshot(docs, trees)]
    /\ UNCHANGED <<docs, trees, trees_keys, first_order>>
    /\ UNCHANGED cvars

\* the response is sent; the next request can begin
Respond ==
    /\ last.op # "idle"
    /\ last' = [op |-> "idle"]
    /\ UNCHANGED <<docs, trees, trees_keys, first_order>>
    /\ UNCHANGED cvars

NextApp == Health \/ IndexDoc \/ QueryHandler \/ Snapshot \/ Respond

SpecApp == Init /\ [][NextApp]_vars

\* ------------------------------------- index_document and query, by steps

ConcDocIds == {"d1", "d2"}
ConcTexts == {<<"a", ":">>, <<"a", " ", ":">>}
ConcQueries == {<<"a", ":">>}
ConcThresholds == {[given |-> TRUE, map |-> (0 :> <<1, 1>>)]}

\* references to BloomNode objects: the published roots, the one being built
\* and the one a query still holds
Refs == 1..(Cardinality(ConcDocIds) + 2)

NewRef == CHOOSE r \in Refs \ DOMAIN heap : \A r2 \in Refs \ DOMAIN heap : r <= r2

\* the references still held by self.trees or by a local variable "root"
Live(trs, wr, rdr) ==
    {trs[d] : d \in DOMAIN trs}
        \cup (IF wr.pc # "idle" THEN {wr.root} ELSE {})
        \cup (IF rdr.pc \in {"iter", "root_stage", "refine", "sort"} /\ rdr.root # 0
              THEN {rdr.root} ELSE {})

\* objects nothing refers to are freed
Collect(h, live) == [r \in DOMAIN h \cap live |-> h[r]]

\* index_document storing the root in self.trees before its loop
W_Start_publish_early ==
    /\ writer.pc = "idle"
    /\ \E doc_id \in ConcDocIds, text \in ConcTexts :
        /\ heap' = Collect((NewRef :> [node |-> BloomNode(0, <<doc_id, "_root">>),
                                       text |-> text]) @@ heap,
                           Live(DictSet(c_trees, doc_id, NewRef),
                                [pc |-> "loop", root |-> NewRef], reader))
        /\ writer' = [pc |-> "loop", doc_id |-> doc_id, text |-> text, root |-> NewRef,
                      pairs |-> PairsTable[text], i |-> 1]
        /\ c_trees' = DictSet(c_trees, doc_id, NewRef)
        /\ c_keys' = KeysAfterSet(c_keys, doc_id)
    /\ UNCHANGED <<c_docs, reader>>
    /\ UNCHANGED svars

\* index_document: root = BloomNode(...); decomposition = fractal_decompose(text)
W_Start ==
    /\ writer.pc = "idle"
    /\ \E doc_id \in ConcDocIds, text \in ConcTexts :
        /\ heap' = (NewRef :> [node |-> BloomNode(0, <<doc_id, "_root">>), text |-> text])
                        @@ heap
        /\ writer' = [pc |-> "loop", doc_id |-> doc_id, text |-> text, root |-> NewRef,
                      pairs |-> PairsTable[text], i |-> 1]
    /\ UNCHANGED <<c_docs, c_trees, c_keys, reader>>
    /\ UNCHANGED svars

\* index_document: root.insert_indexes(lex_idxs + sem_idxs)
W_InsertRoot ==
    /\ writer.pc = "loop"
    /\ writer.i <= Len(writer.pairs)
    /\ heap' = [heap EXCEPT ![writer.root].node = InsertRoot(@, writer.pairs[writer.i][2])]
    /\ writer' = [writer EXCEPT !.pc = "child"]
    /\ UNCHANGED <<c_docs, c_trees, c_keys, reader>>
    /\ UNCHANGED svars

\* index_document: the child node of the pair is created and filled
W_InsertChild ==
    /\ writer.pc = "child"
    /\ heap' = [heap EXCEPT ![writer.root].node =
                    InsertChild(@, writer.pairs[writer.i][1], writer.pairs[writer.i][2])]
    /\ writer' = [writer EXCEPT !.pc = "loop", !.i = @ + 1]
    /\ UNCHANGED <<c_docs, c_trees, c_keys, reader>>
    /\ UNCHANGED svars

\* index_document: self.docs[doc_id] = {"text": text, "meta": metadata or {}}
W_StoreDocs ==
    /\ writer.pc = "loop"
    /\ writer.i > Len(writer.pairs)
    /\ c_docs' = DictSet(c_docs, writer.doc_id,
                         [text |-> writer.text, meta |-> MetaOrEmpty("None")])
    /\ writer' = [writer EXCEPT !.pc = "store_trees"]
    /\ UNCHANGED <<heap, c_trees, c_keys, reader>>
    /\ UNCHANGED svars

\* index_document: self.trees[doc_id] = root, and the call returns
W_StoreTrees ==
    /\ writer.pc = "store_trees"
    /\ c_trees' = DictSet(c_trees, writer.doc_id, writer.root)
    /\ c_keys' = KeysAfterSet(c_keys, writer.doc_id)
    /\ writer' = [pc |-> "idle"]
    /\ heap' = Collect(heap, Live(c_trees', writer', reader))
    /\ UNCHANGED <<c_docs, reader>>
    /\ UNCHANGED svars

\* query: the decomposition of the query text, and the iterator over
\* self.trees.items(), which remembers the size of the dict
Q_Start ==
    /\ reader.pc = "idle"
    /\ \E query_text \in ConcQueries, thresholds \in ConcThresholds :
        reader' = [pc |-> "iter", pairs |-> PairsTable[query_text],
                   thr |-> RootThreshold(thresholds), top_k |-> DEFAULT_TOP_K,
                   size |-> Len(c_keys), pos |-> 0, doc_id |-> "", root |-> 0,
                   seen |-> <<>>, candidates |-> <<>>]
    /\ UNCHANGED <<heap, c_docs, c_trees, c_keys, writer>>
    /\ UNCHANGED svars

\* query: the iterator finds the dict grown since the loop began:
\* RuntimeError, dictionary changed size during iteration
Q_IterError ==
    /\ reader.pc = "iter"
    /\ Len(c_keys) # reader.size
    /\ reader' = [pc |-> "done", error |-> "RuntimeError", ret |-> <<>>]
    /\ heap' = Collect(heap, Live(c_trees, writer, reader'))
    /\ UNCHANGED <<c_docs, c_trees, c_keys, writer>>
    /\ UNCHANGED svars

\* query: the next (doc_id, root) of self.trees.items()
Q_NextDoc ==
    /\ reader.pc = "iter"
    /\ Len(c_keys) = reader.size
    /\ reader.pos < Len(c_keys)
    /\ LET doc_id == c_keys[reader.pos + 1]
       IN  reader' = [reader EXCEPT !.pc = "root_stage", !.pos = @ + 1, !.doc_id = doc_id,
                                    !.root = c_trees[doc_id],
                                    !.seen = heap[c_trees[doc_id]]]
    /\ heap' = Collect(heap, Live(c_trees, writer, reader'))
    /\ UNCHANGED <<c_docs, c_trees, c_keys, writer>>
    /\ UNCHANGED svars

\* query: root_score from root.bits, and the pruning test
Q_RootStage ==
    /\ reader.pc = "root_stage"
    /\ reader' = IF FracLess(RootScore(heap[reader.root].node, reader.pairs), reader.thr)
                  THEN [reader EXCEPT !.pc = "iter", !.seen = <<>>]
                  ELSE [reader EXCEPT !.pc = "refine"]
    /\ UNCHANGED <<heap, c_docs, c_trees, c_keys, writer>>
    /\ UNCHANGED svars

\* query: final_score from root.children and root.bits; candidates.append
Q_Refine ==
    /\ reader.pc = "refine"
    /\ reader' = [reader EXCEPT !.pc = "iter", !.seen = <<>>, !.candidates =
            Append(@, <<reader.doc_id, FinalScore(heap[reader.root].node, reader.pairs)>>)]
    /\ UNCHANGED <<heap, c_docs, c_trees, c_keys, writer>>
    /\ UNCHANGED svars

\* query: the iterator is exhausted
Q_IterEnd ==
    /\ reader.pc = "iter"
    /\ Len(c_keys) = reader.size
    /\ reader.pos = Len(c_keys)
    /\ reader' = [reader EXCEPT !.pc = "sort"]
    /\ UNCHANGED <<heap, c_docs, c_trees, c_keys, writer>>
    /\ UNCHANGED svars

\* query: candidates.sort(...); return candidates[:top_k]
Q_Sort ==
    /\ reader.pc = "sort"
    /\ reader' = [pc |-> "done", error |-> "",
                  ret |-> Take(SortDesc(reader.candidates), reader.top_k)]
    /\ heap' = Collect(heap, Live(c_trees, writer, reader'))
    /\ UNCHANGED <<c_docs, c_trees, c_keys, writer>>
    /\ UNCHANGED svars

\* the caller of query takes the result or the exception
Q_Return ==
    /\ reader.pc = "done"
    /\ reader' = [pc |-> "idle"]
    /\ UNCHANGED <<heap, c_docs, c_trees, c_keys, writer>>
    /\ UNCHANGED svars

NextConc ==
    \/ W_Start \/ W_InsertRoot \/ W_InsertChild \/ W_StoreDocs \/ W_StoreTrees
    \/ Q_Start \/ Q_IterError \/ Q_NextDoc \/ Q_RootStage \/ Q_Refine \/ Q_IterEnd
    \/ Q_Sort \/ Q_Return

SpecConc == Init /\ [][NextConc]_vars

\* ---------------------------------------------------------------- claims

\* what the claims measure against: the bit positions of a subsequence, the
\* set of pairs of a text, the key of a pair
HashBits(s) == {Idxs(s)[j] % M_BITS : j \in 1..Len(Idxs(s))}

PairSet(text) == SeqRange(PairsTable[text])

TextBits(text) == UNION {HashBits(p[2]) : p \in PairSet(text)}

KeyOf(p) == <<"l", Digit(p[1]), ":">> \o p[2]

IsBlank(text) == \A i \in 1..Len(text) : text[i] = " "

RetIds(ret) == {ret[i][1] : i \in 1..Len(ret)}

PosIn(q, x) == CHOOSE i \in 1..Len(q) : q[i] = x

\* the number of pooled indices of a query text, and how many of them are
\* set in a set of bits
Pooled(query_text) ==
    {<<i, j>> : i \in 1..Len(PairsTable[query_text]), j \in 1..(DEFAULT_K_LEX + DEFAULT_K_SEM)}

PooledHits(query_text, bits) ==
    {x \in Pooled(query_text) :
        (Idxs(PairsTable[query_text][x[1]][2])[x[2]] % M_BITS) \in bits}

\* C1: index_document replaces and never merges: after the call the root, the
\* child map and the stored entry of doc_id are those the same call produces
\* on an empty index, so the new root holds no bit that only the old text set.
C1_ReplaceNotMerge ==
    last.op = "index_document" =>
        LET d == last.doc_id
            fresh == DictSet(<<>>, d, BuildTree(d, last.text))
        IN  /\ trees[d] = fresh[d]
            /\ trees[d].bits = TextBits(last.text)
            /\ DOMAIN trees[d].children = {KeyOf(pr) : pr \in PairSet(last.text)}
            /\ docs[d] = [text |-> last.text, meta |-> MetaOrEmpty(last.metadata)]
            /\ (last.prior.present /\ last.prior.text = last.text
                    => trees[d].bits = last.prior.bits)

\* a doc_id re-indexed with another text, the old root holding bits the new
\* text does not set
C1_Witness ==
    /\ last.op = "index_document"
    /\ last.prior.present
    /\ last.prior.text # last.text
    /\ last.prior.bits \ trees[last.doc_id].bits # {}
    /\ trees[last.doc_id].bits # {}

\* C3: query returns the first top_k surviving pairs by score descending: at
\* most top_k entries, no doc_id twice, and equal scores in the order of the
\* doc_ids' first insertion into the index.
C3_SortedTopK ==
    last.op = "query" =>
        LET ret == last.ret
            thr == RootThreshold(last.thresholds)
            pairs == PairsTable[last.query_text]
            alive == {d \in DOMAIN trees : ~FracLess(RootScore(trees[d], pairs), thr)}
            Ahead(x, sx, y, sy) == \* x with score sx is listed before y with score sy
                \/ FracLess(sy, sx)
                \/ sy = sx /\ PosIn(first_order, x) < PosIn(first_order, y)
        IN  /\ Len(ret) <= last.top_k
            /\ Len(ret) = (IF last.top_k < Cardinality(alive)
                           THEN last.top_k ELSE Cardinality(alive))
            /\ \A i \in 1..Len(ret) :
                /\ ret[i][1] \in alive
                /\ ret[i][2] = FinalScore(trees[ret[i][1]], pairs)
            /\ \A i, j \in 1..Len(ret) :
                i < j => Ahead(ret[i][1], ret[i][2], ret[j][1], ret[j][2])
            /\ \A d \in alive \ RetIds(ret) :
                LET sd == FinalScore(trees[d], pairs)
                IN  \A i \in 1..Len(ret) : Ahead(ret[i][1], ret[i][2], d, sd)

\* two documents with equal scores, the one indexed first (d2) listed first,
\* after d2 was indexed again
C3_Witness ==
    /\ last.op = "query"
    /\ Len(last.ret) = 2
    /\ last.ret[1][2] = last.ret[2][2]
    /\ last.ret[1][2][1] > 0
    /\ last.ret[1][1] = "d2"
    /\ docs["d1"].text # docs["d2"].text

\* C4: a stored document is left out of the candidates exactly when its
\* root_score, the share of the query's pooled indices set in its root (0 when
\* nothing is pooled), is below thresholds[0], which is 0.01 by default.
C4_Pruning ==
    (last.op = "query" /\ last.top_k >= Len(trees_keys)) =>
        LET th == last.thresholds
            thr == IF th.given /\ 0 \in DOMAIN th.map THEN th.map[0] ELSE <<1, 100>>
        IN  \A d \in DOMAIN trees :
                LET total == Cardinality(Pooled(last.query_text))
                    hits == Cardinality(PooledHits(last.query_text, trees[d].bits))
                    below == IF total = 0 THEN 0 < thr[1]
                             ELSE hits * thr[2] < thr[1] * total
                IN  (d \notin RetIds(last.ret)) <=> below

\* under thresholds = {0: 0.5}, a document whose root sets some but fewer
\* than half of the pooled indices is left out, another one is kept
C4_Witness ==
    /\ last.op = "query"
    /\ last.thresholds = [given |-> TRUE, map |-> (0 :> <<1, 2>>)]
    /\ Len(last.ret) = 1
    /\ \E d \in DOMAIN trees \ RetIds(last.ret) :
        LET hits == Cardinality(PooledHits(last.query_text, trees[d].bits))
        IN  hits > 0 /\ 2 * hits < Cardinality(Pooled(last.query_text))

\* C5: query, get_doc and export_index_snapshot leave docs and trees (every
\* bit and every child key) as they were; only index_document changes them.
C5_ReadOnly ==
    [][/\ last'.op \in {"query", "get_doc", "export_index_snapshot"}
            => (docs' = docs /\ trees' = trees /\ trees_keys' = trees_keys)
       /\ (docs' # docs \/ trees' # trees) => last'.op = "index_document"]_vars

\* a query that scored a stored document through the root fallback
C5_Witness ==
    /\ last.op = "query"
    /\ Len(last.ret) > 0
    /\ \E pr \in PairSet(last.query_text) :
        KeyOf(pr) \notin DOMAIN trees[last.ret[1][1]].children

\* C7: a document indexed from an empty or whitespace-only text has every
\* level present and empty, an all-zero root and no children, and every query
\* result that lists it gives it the score 0, the empty query included.
C7_BlankText ==
    \A d \in DOMAIN docs :
        IsBlank(docs[d].text) =>
            /\ fractal_decompose(docs[d].text) = [lvl \in 1..5 |-> <<>>]
            /\ trees[d].bits = {}
            /\ DOMAIN trees[d].children = {}
            /\ last.op = "query" =>
                \A i \in 1..Len(last.ret) : last.ret[i][1] = d => last.ret[i][2] = <<0, 1>>

\* a whitespace-only document listed by an empty query, and by another one
C7_Witness ==
    /\ last.op = "query"
    /\ IsBlank(last.query_text)
    /\ \E i \in 1..Len(last.ret) :
        /\ docs[last.ret[i][1]].text = <<" ">>
        /\ last.ret[i][2] = <<0, 1>>

\* C8: the snapshot has one entry per indexed doc_id; root_bits and every
\* child string are m characters of '0'/'1'; the child keys are the keys of
\* the pairs of the text last indexed, one key per distinct pair.
C8_Snapshot ==
    last.op = "export_index_snapshot" =>
        LET snap == last.ret
            IsBits(b) == Len(b) = M_BITS /\ \A i \in 1..Len(b) : b[i] \in {"0", "1"}
        IN  /\ DOMAIN snap = SeqRange(first_order)
            /\ \A d \in DOMAIN snap :
                /\ IsBits(snap[d].root_bits)
                /\ \A k \in DOMAIN snap[d].children : IsBits(snap[d].children[k])
                /\ DOMAIN snap[d].children = {KeyOf(pr) : pr \in PairSet(docs[d].text)}
                /\ Cardinality(DOMAIN snap[d].children) = Cardinality(PairSet(docs[d].text))
                /\ {i \in 1..M_BITS : snap[d].root_bits[i] = "1"}
                        = {b + 1 : b \in TextBits(docs[d].text)}

\* a snapshot of a document whose text gives the same literal at two levels
C8_Witness ==
    /\ last.op = "export_index_snapshot"
    /\ \E d \in DOMAIN last.ret :
        /\ {<<"l", "1", ":", "a">>, <<"l", "3", ":", "a">>} \subseteq DOMAIN last.ret[d].children
        /\ Cardinality(DOMAIN last.ret[d].children) > 2

\* C9: in every stored tree the root is the bitwise OR of its children, and
\* the child of (level, subsequence) holds exactly the k_lex + k_sem indices
\* of that subsequence modulo m, all in [0, m).
C9_RootIsUnion ==
    \A d \in DOMAIN trees :
        LET root == trees[d]
        IN  /\ root.bits = UNION {root.children[k].bits : k \in DOMAIN root.children}
            /\ root.bits \subseteq 0..(M_BITS - 1)
            /\ \A pr \in PairSet(docs[d].text) :
                /\ KeyOf(pr) \in DOMAIN root.children
                /\ root.children[KeyOf(pr)].bits = HashBits(pr[2])
                /\ root.children[KeyOf(pr)].level = pr[1]
            /\ \A k \in DOMAIN root.children :
                /\ k \in {KeyOf(pr) : pr \in PairSet(docs[d].text)}
                /\ Cardinality(root.children[k].bits) <= DEFAULT_K_LEX + DEFAULT_K_SEM

\* a stored tree whose children differ and whose root is larger than each
C9_Witness ==
    \E d \in DOMAIN trees :
        /\ Cardinality(DOMAIN trees[d].children) >= 3
        /\ \A k \in DOMAIN trees[d].children : trees[d].children[k].bits # trees[d].bits
        /\ \E k1, k2 \in DOMAIN trees[d].children :
            trees[d].children[k1].bits # trees[d].children[k2].bits

\* C10: querying the text last indexed for d (not blank), with top_k at least
\* the number of documents and thresholds[0] <= 1, lists d with root_score 1
\* and final_score exactly 1, and no document scores higher.
C10_NoFalseNegative ==
    (/\ last.op = "query"
     /\ last.top_k >= Len(trees_keys)
     /\ ~FracLess(<<1, 1>>, RootThreshold(last.thresholds))) =>
        \A d \in DOMAIN docs :
            (docs[d].text = last.query_text /\ ~IsBlank(last.query_text)) =>
                /\ PooledHits(last.query_text, trees[d].bits) = Pooled(last.query_text)
                /\ \E i \in 1..Len(last.ret) : last.ret[i] = <<d, <<1, 1>>>>
                /\ \A i \in 1..Len(last.ret) : ~FracLess(<<1, 1>>, last.ret[i][2])

\* the queried text is d1's, the other document scores lower and is listed
\* after it though it was indexed first
C10_Witness ==
    /\ last.op = "query"
    /\ Len(last.ret) = 2
    /\ last.ret[1] = <<"d1", <<1, 1>>>>
    /\ docs["d1"].text = last.query_text
    /\ FracLess(last.ret[2][2], <<1, 1>>)
    /\ first_order = <<"d2", "d1">>

\* C6: an index request whose doc_id or text is absent or null fails with an
\* error and leaves the index as it was; no document is stored under a null
\* doc_id.
C6_MissingFieldRejected ==
    /\ None \notin DOMAIN docs
    /\ None \notin DOMAIN trees
    /\ last.op = "POST /index" =>
        LET missing(f) == ~f.present \/ f.null
        IN  (missing(last.payload.doc_id) \/ missing(last.payload.text))
                => last.status # "indexed"

\* C2: index_document is atomic to a concurrent query: every tree in the
\* trees map is the complete tree of the text it was built from, and the tree
\* a query took from the map is that complete tree at each of its reads,
\* never one with only some of the subsequences inserted.
C2_AtomicToReaders ==
    /\ \A d \in DOMAIN c_trees :
        heap[c_trees[d]].node = BuildTree(d, heap[c_trees[d]].text)
    /\ reader.pc \in {"root_stage", "refine"} =>
        /\ heap[reader.root] = reader.seen
        /\ reader.seen.node = BuildTree(reader.doc_id, reader.seen.text)

\* a query reads d's tree between its root stage and its refinement while
\* index_document has inserted some, not all, subsequences of d's new text
C2_Witness ==
    /\ reader.pc = "refine"
    /\ writer.pc \in {"loop", "child"}
    /\ writer.doc_id = reader.doc_id
    /\ writer.i > 1
    /\ writer.i <= Len(writer.pairs)
    /\ writer.text # reader.seen.text
    /\ heap[writer.root].node.bits # {}
    /\ heap[writer.root].node # BuildTree(writer.doc_id, writer.text)
====
